---- MODULE Spec2Model ----
(***************************************************************************)
(* A model of the hh-deep-deep control plane: the Service of service.py,   *)
(* the DeepDeepProcess of deepdeep_crawl.py and the CrawlProcess base of   *)
(* crawl_utils.py, together with the two things they talk to: the job      *)
(* directories under deep-deep-jobs/ and the docker runtime.                *)
(***************************************************************************)
EXTENDS Integers, Sequences, FiniteSets, TLC

\* ------------------------------------------------------------------ bounds
MaxTime == 1          \* the clock int(time.time()) takes the values 0..MaxTime
MaxContainers == 2    \* docker run succeeds at most this many times
MaxIter == 2          \* Spec: iterations of run() that end
MaxRounds == 2        \* SpecUpdates: broadcasts that run
MaxModel == 1         \* checkpoint files Q-1.joblib .. Q-<MaxModel>.joblib
MaxCheckpoints == 2   \* SpecModels: checkpoint files Q-5.joblib, Q-10.joblib, ...

\* ------------------------------------------------------- values and inputs
None == "None"        \* Python's None where the other values are strings
NoPid == 0            \* pid is None / pid.txt absent; container ids are 1, 2, ...
NoTime == -1          \* last_progress_time is None
NoItems == -1         \* items.jl.gz does not exist
NoText == <<>>        \* last_progress is None
NoFile == -1          \* last_model_file is None

Ids == {"a", "b"}     \* the job ids that commands carry
Cids == 1..MaxContainers
Times == 0..MaxTime

\* hashlib.md5(id_.encode('utf8')).hexdigest()[:12]
md5_12(id) == IF id = "a" THEN "0cc175b9c0f1" ELSE "92eb5ffee6ae"

\* gen_job_path: jobs_root / '{int(time.time())}_{md5[:12]}'
gen_job_path(id, t) == <<t, md5_12(id)>>

\* The order of sorted(jobs_root.iterdir()): the names compare as strings;
\* the timestamps have the same number of digits, so they compare as
\* numbers, and the hash prefixes compare by their first hex digit.
HexRank(h) == IF h = "0cc175b9c0f1" THEN 0 ELSE 9
NameLess(d1, d2) ==
    \/ d1[1] < d2[1]
    \/ d1[1] = d2[1] /\ HexRank(d1[2]) < HexRank(d2[2])

RECURSIVE SortedDirs(_)
SortedDirs(S) ==
    IF S = {} THEN <<>>
    ELSE LET m == CHOOSE x \in S : \A y \in S \ {x} : NameLess(x, y)
         IN  <<m>> \o SortedDirs(S \ {m})

VARIABLES
    now,          \* int(time.time())
    disk,         \* job directory name -> its files
    containers,   \* container id -> its state in the docker runtime
    nextCid,      \* the id the next successful docker run returns
    running,      \* Service.running / the dict load_all_running builds
    pc,           \* where the service is
    todo,         \* load_all_running: the sorted directories still to visit
    counter,      \* Service.run: counter
    cursor,       \* send_updates: position in self.running.items()
    sent,         \* what the current or latest send_updates published
    returned,     \* id -> the progress its process's get_updates returned last
    delivered,    \* id -> the checkpoints its process's get_new_model returned
    uncommitted,  \* a message was consumed since the latest consumer.commit()
    last          \* what the latest handler did (calls made, error logged)

vars == <<now, disk, containers, nextCid, running, pc, todo, counter,
          cursor, sent, returned, delivered, uncommitted, last>>

\* ---------------------------------------------------------- job directory
\* CrawlPaths / DeepDeepPaths: id.txt, page_clf.joblib, seeds.txt, pid.txt,
\* items.jl.gz, Q-<n>.joblib.  id and pid hold the file's content (None /
\* NoPid: no file), items the last valid record of the stream, models the
\* numbers n of the checkpoint files.
EmptyDir == [id |-> None, page_clf |-> FALSE, seeds |-> FALSE,
             pid |-> NoPid, items |-> NoItems, models |-> {}]

SetDir(dk, d, rec) ==
    [x \in (DOMAIN dk) \cup {d} |-> IF x = d THEN rec ELSE dk[x]]

\* --------------------------------------------------------- docker runtime
\* A world is what a handler reads and writes outside the registry; calls is
\* the list of docker invocations the handler has made so far.
World == [disk |-> disk, containers |-> containers, nextCid |-> nextCid,
          calls |-> <<>>]

Absent == [state |-> "absent", job |-> <<-1, "">>]

\* subprocess.check_output(['docker', cmd, ...]).  The call numbered f fails
\* for a reason of the runtime's own (f = 0: none does); stop, rm and inspect
\* fail on a container docker does not know, rm fails on a running one.  A
\* failed call raises CalledProcessError and changes nothing.
docker(w, cmd, c, job, f) ==
    LET n     == Len(w.calls) + 1
        known == c \in DOMAIN w.containers /\ w.containers[c].state # "absent"
        can   == IF cmd = "run" THEN TRUE
                 ELSE IF cmd = "rm" THEN known /\ w.containers[c].state = "exited"
                 ELSE known
        ok    == can /\ n # f
        cid   == IF cmd = "run" THEN (IF ok THEN w.nextCid ELSE NoPid) ELSE c
        conts == IF ~ok THEN w.containers
                 ELSE IF cmd = "run"
                      THEN [w.containers EXCEPT ![cid] =
                                [state |-> "running", job |-> job]]
                 ELSE IF cmd = "stop"
                      THEN [w.containers EXCEPT ![c].state = "exited"]
                 ELSE IF cmd = "rm"
                      THEN [w.containers EXCEPT ![c] = Absent]
                 ELSE w.containers
    IN  [ok  |-> ok,
         cid |-> cid,
         w   |-> [w EXCEPT !.containers = conts,
                           !.nextCid = IF ok /\ cmd = "run" THEN @ + 1 ELSE @,
                           !.calls = Append(@, [cmd |-> cmd, cid |-> cid,
                                                ok |-> ok])]]

\* ------------------------------------------------------------ CrawlProcess
\* CrawlProcess.__init__ and DeepDeepProcess.__init__
Process(id, seeds, root, pid, clf) ==
    [id_ |-> id, seeds |-> seeds, root |-> root, pid |-> pid,
     page_clf_data |-> clf,
     last_progress |-> NoText, last_progress_time |-> NoTime,
     last_model_file |-> NoFile]

\* DeepDeepProcess.start
start(p, w, f) ==
    IF p.pid # NoPid
    THEN [raised |-> TRUE, p |-> p, w |-> w]               \* assert self.pid is None
    ELSE
    LET d   == p.root
        old == IF d \in DOMAIN w.disk THEN w.disk[d] ELSE EmptyDir
        d1  == [old EXCEPT !.id = p.id_]                   \* mkdir, id.txt
        w1  == [w EXCEPT !.disk = SetDir(w.disk, d, d1)]
    IN  IF p.page_clf_data = None
        THEN [raised |-> TRUE, p |-> p, w |-> w1]          \* write_bytes(None)
        ELSE
        LET d2 == [d1 EXCEPT !.page_clf = TRUE, !.seeds = TRUE]
            w2 == [w EXCEPT !.disk = SetDir(w.disk, d, d2)]
            r  == docker(w2, "run", NoPid, d, f)
        IN  IF p.seeds = "null"
            THEN [raised |-> TRUE, p |-> p, w |-> w2]      \* writerows: TypeError
            ELSE IF ~r.ok
            THEN [raised |-> TRUE, p |-> p, w |-> r.w]
            ELSE [raised |-> FALSE,
                  p |-> [p EXCEPT !.pid = r.cid],
                  w |-> [r.w EXCEPT !.disk[d].pid = r.cid]] \* pid.txt

\* DeepDeepProcess.stop
stop(p, w, f) ==
    IF p.pid = NoPid
    THEN [raised |-> FALSE, p |-> p, w |-> w]
    ELSE
    LET r1 == docker(w, "stop", p.pid, p.root, f)
    IN  IF ~r1.ok THEN [raised |-> TRUE, p |-> p, w |-> r1.w]
        ELSE
        LET r2 == docker(r1.w, "rm", p.pid, p.root, f)
        IN  IF ~r2.ok THEN [raised |-> TRUE, p |-> p, w |-> r2.w]
            ELSE IF r2.w.disk[p.root].pid = NoPid
            THEN [raised |-> TRUE, p |-> p, w |-> r2.w]    \* unlink: no such file
            ELSE [raised |-> FALSE,
                  p |-> [p EXCEPT !.pid = NoPid],
                  w |-> [r2.w EXCEPT !.disk[p.root].pid = NoPid]]

\* load_running without the State.Running test: whatever docker inspect
\* finds is loaded as a running process.
load_running_any_state(root, w, f) ==
    LET rec == w.disk[root]
    IN  IF rec.id = None \/ rec.pid = NoPid \/ ~rec.seeds \/ ~rec.page_clf
        THEN [tag |-> "none", w |-> w]
        ELSE
        LET pid == rec.pid
            r   == docker(w, "inspect", pid, root, f)
            gone == [r.w EXCEPT !.disk[root].pid = NoPid]
        IN  IF ~r.ok THEN [tag |-> "none", w |-> gone]
            ELSE [tag |-> "process", w |-> r.w,
                  p |-> Process(rec.id, "urls", root, pid, "blob")]

\* DeepDeepProcess.load_running
load_running(root, w, f) ==
    LET rec == w.disk[root]
    IN  IF rec.id = None \/ rec.pid = NoPid \/ ~rec.seeds \/ ~rec.page_clf
        THEN [tag |-> "none", w |-> w]
        ELSE
        LET pid == rec.pid
            r   == docker(w, "inspect", pid, root, f)
            gone == [r.w EXCEPT !.disk[root].pid = NoPid]  \* paths.pid.unlink()
        IN  IF ~r.ok THEN [tag |-> "none", w |-> gone]
            ELSE IF r.w.containers[pid].state # "running"
            THEN LET r2 == docker(gone, "rm", pid, root, f)
                 IN  IF r2.ok THEN [tag |-> "none", w |-> r2.w]
                     ELSE [tag |-> "raised", w |-> r2.w]
            ELSE [tag |-> "process", w |-> r.w,
                  p |-> Process(rec.id, "urls", root, pid, "blob")]

\* ------------------------------------------------- the registry, a dict
\* A Python dict in insertion order: a sequence of processes, one per id.
Has(r, id) == \E i \in 1..Len(r) : r[i].id_ = id
IndexOf(r, id) == CHOOSE i \in 1..Len(r) : r[i].id_ = id
DictGet(r, id) == r[IndexOf(r, id)]
DictPop(r, id) == SelectSeq(r, LAMBDA p : p.id_ # id)
DictSet(r, p) ==
    IF Has(r, p.id_) THEN [r EXCEPT ![IndexOf(r, p.id_)] = p] ELSE Append(r, p)

\* load_all_running without old_process.stop(): the later process replaces
\* the earlier one in the registry and the earlier one is left alone.
load_all_running_body_no_stop(run, root, w, f) ==
    LET r == load_running(root, w, f)
    IN  IF r.tag = "raised"
        THEN [raised |-> TRUE, running |-> run, w |-> r.w, tag |-> r.tag]
        ELSE IF r.tag = "none"
        THEN [raised |-> FALSE, running |-> run, w |-> r.w, tag |-> r.tag]
        ELSE [raised |-> FALSE, running |-> DictSet(run, r.p), w |-> r.w,
              tag |-> r.tag]

\* CrawlProcess.load_all_running: the body of the loop, for one directory
load_all_running_body(run, root, w, f) ==
    LET r == load_running(root, w, f)
    IN  IF r.tag = "raised"
        THEN [raised |-> TRUE, running |-> run, w |-> r.w, tag |-> r.tag]
        ELSE IF r.tag = "none"
        THEN [raised |-> FALSE, running |-> run, w |-> r.w, tag |-> r.tag]
        ELSE
        LET s == IF Has(run, r.p.id_)
                 THEN stop(DictGet(run, r.p.id_), r.w, f)
                 ELSE [raised |-> FALSE, w |-> r.w]
        IN  IF s.raised
            THEN [raised |-> TRUE, running |-> run, w |-> s.w, tag |-> r.tag]
            ELSE [raised |-> FALSE, running |-> DictSet(run, r.p), w |-> s.w,
                  tag |-> r.tag]

\* ----------------------------------------------------- worker's output
\* The records the worker may have last written to items.jl.gz (reward and
\* return in whole units; reward -1: the record carries no reward).
NoReward == -1
NoScore == -1
ItemTable ==
    << [url |-> "http://a/1", reward |-> 1, processed |-> 1, ret |-> 1, t |-> 2],
       [url |-> "http://a/2", reward |-> NoReward, processed |-> 1, ret |-> 1, t |-> 2],
       [url |-> "", reward |-> NoReward, processed |-> 2, ret |-> 1, t |-> 3] >>
NItems == Len(ItemTable)

\* '{score:.1f}'.format(score=100 * ret / t), in tenths: the quotient rounded
\* to the nearest tenth (no record of ItemTable falls halfway between two)
ScoreTenths(ret, t) == IF t # 0 THEN (2000 * ret + t) \div (2 * t) ELSE 0

\* get_updates_from_item: the progress line (its counters, in the order of
\* the format string; the item carries no crawled_domains, relevant_domains,
\* enqueued or domains_open, which read 0) and the page sample
get_updates_from_item(item) ==
    [progress |-> <<"pages processed", item.processed, 0, 0,
                    ScoreTenths(item.ret, item.t), 0, 0>>,
     pages |-> IF item.url # ""
               THEN << [url |-> item.url,
                        score |-> IF item.reward # NoReward
                                  THEN 100 * item.reward ELSE NoScore] >>
               ELSE <<>>]

\* get_last_valid_item: the last record of the stream that parses, or none
get_last_valid_item(items) == items

\* DeepDeepProcess._get_updates
get_updates_raw(p, dk) ==
    IF dk[p.root].items = NoItems
    THEN [progress |-> <<"Craw is not running yet">>, pages |-> <<>>]
    ELSE IF get_last_valid_item(dk[p.root].items) # 0
    THEN get_updates_from_item(ItemTable[get_last_valid_item(dk[p.root].items)])
    ELSE [progress |-> <<"Crawl started, no updates yet">>, pages |-> <<>>]

\* get_updates that does not store the progress it returns.
get_updates_forgets(p, dk, t) ==
    LET u == get_updates_raw(p, dk)
    IN  IF u.progress # p.last_progress
        THEN [tag |-> "value", progress |-> u.progress, pages |-> u.pages,
              p |-> [p EXCEPT !.last_progress_time = t]]
        ELSE [tag |-> "none", p |-> p]

\* CrawlProcess.get_updates
get_updates(p, dk, t) ==
    LET u == get_updates_raw(p, dk)
    IN  IF u.progress # p.last_progress
        THEN [tag |-> "value", progress |-> u.progress, pages |-> u.pages,
              p |-> [p EXCEPT !.last_progress = u.progress,
                              !.last_progress_time = t]]
        ELSE [tag |-> "none", p |-> p]

\* CrawlProcess.target_sample_rate_pm: sample urls per minute
target_sample_rate_pm == 3

\* math.ceil(a / b) for an integer a and a positive integer b
CeilDiv(a, b) == -((-a) \div b)

\* get_n_last that rounds the quota down.
get_n_last_floor(p, t) ==
    IF p.last_progress_time = NoTime
    THEN 1
    ELSE (target_sample_rate_pm * (t - p.last_progress_time)) \div 60

\* CrawlProcess.get_n_last at the time t, in seconds:
\* delay_m = (t - last_progress_time) / 60, ceil(target_sample_rate_pm * delay_m)
get_n_last(p, t) ==
    IF p.last_progress_time = NoTime
    THEN 1
    ELSE CeilDiv(target_sample_rate_pm * (t - p.last_progress_time), 60)

\* ------------------------------------------------------------- messages
\* What json.loads(message.value.decode('utf8')) can make of a message:
\*   garbage  the bytes do not decode or do not parse: json.loads raises
\*   scalar   a number, true, false or null
\*   str      a string; has: the keys among id, page_model, seeds that are
\*            substrings of it
\*   list     a list; has: the keys that are elements of it
\*   obj      an object: its keys, and the values of id, page_model,
\*            from-tests and the truth of stop where the key is present;
\*            seeds: "urls" for a list of urls, "null" for a value that
\*            cannot be iterated
StartKeys == <<"id", "page_model", "seeds">>
HasSets == {{}, {"id"}, {"id", "page_model", "seeds"}}
Obj(keys, id, pm, stp, ft) ==
    [type |-> "obj", keys |-> keys, id |-> id, page_model |-> pm,
     seeds |-> IF "seeds" \in keys THEN "urls" ELSE None,
     stop |-> stp, from_tests |-> ft]
AdminStop == Obj({"from-tests"}, None, None, FALSE, "stop")
StartMsgs ==
    {Obj({"id", "page_model", "seeds"}, i, "ok", FALSE, None) : i \in Ids}
    \cup {Obj({"id", "page_model", "seeds"}, "a", "null", FALSE, None),
          Obj({"id", "page_model", "seeds"}, "b", "bad", FALSE, None),
          [Obj({"id", "page_model", "seeds"}, "a", "ok", FALSE, None)
               EXCEPT !.seeds = "null"]}
StopMsgs == {Obj({"id", "stop"}, i, None, TRUE, None) : i \in Ids}
IncompleteMsgs ==
    {Obj({}, None, None, FALSE, None),
     Obj({"id", "stop"}, "a", None, FALSE, None),
     Obj({"id", "seeds"}, "a", None, FALSE, None),
     Obj({"page_model", "seeds", "stop"}, None, "ok", TRUE, None)}
NonObjects ==
    {[type |-> "scalar"]}
    \cup {[type |-> "str", has |-> h] : h \in HasSets}
    \cup {[type |-> "list", has |-> h] : h \in HasSets \ {{}}}
Messages ==
    {[type |-> "garbage"]} \cup NonObjects \cup IncompleteMsgs
    \cup {AdminStop} \cup StartMsgs \cup StopMsgs

\* Python's `key in value`: "T", "F", or "TypeError" for a value that is no
\* container
KeyIn(key, v) ==
    IF v.type = "scalar" THEN "TypeError"
    ELSE IF v.type = "obj" THEN (IF key \in v.keys THEN "T" ELSE "F")
    ELSE IF key \in v.has THEN "T" ELSE "F"

\* all(key in value for key in ['id', 'page_model', 'seeds']): the generator
\* stops at the first key that is missing
RECURSIVE AllKeysIn(_, _)
AllKeysIn(keys, v) ==
    IF keys = <<>> THEN "T"
    ELSE LET r == KeyIn(Head(keys), v)
         IN  IF r = "T" THEN AllKeysIn(Tail(keys), v) ELSE r

\* The if/elif chain of Service.run on a parsed value: which branch runs
Dispatch(v) ==
    IF v.type = "obj" /\ v.keys = {"from-tests"} /\ v.from_tests = "stop"
    THEN "return"
    ELSE IF AllKeysIn(StartKeys, v) = "TypeError" THEN "raise"
    ELSE IF AllKeysIn(StartKeys, v) = "T"
    THEN IF v.type = "obj" THEN "start_crawl"
         ELSE "raise"                              \* value['id']: TypeError
    ELSE IF KeyIn("id", v) = "F" THEN "drop"
    ELSE IF v.type # "obj" THEN "raise"            \* value.get: AttributeError
    ELSE IF "stop" \in v.keys /\ v.stop THEN "stop_crawl"
    ELSE "drop"

\* decode_model_data(request['page_model']), on what the request carries:
\* null decodes to None, text that is not base64 of a zlib stream raises
decode_page_model(pm) ==
    IF pm = "null" THEN [raised |-> FALSE, data |-> None]
    ELSE IF pm = "ok" THEN [raised |-> FALSE, data |-> "blob"]
    ELSE [raised |-> TRUE, data |-> None]

\* ---------------------------------------------------------- model payload
\* Bytes are the integers 0..255; a str is the sequence of the code points
\* of its characters (0..1114111, ASCII below 128).
NoData == <<-1>>         \* data is None, where the other values are bytes
NoStr == <<-1>>          \* the payload is None, where the others are str
Raised == <<-2>>         \* the call raises instead of returning bytes

\* n bits of v, the most significant first
BitsMSB(v, n) == [i \in 1..n |-> (v \div 2^(n - i)) % 2]

\* The two sums of Adler-32 over data[lo..hi], modulo 65521: the sum of the
\* bytes, and the sum of the bytes each counted once for every place from
\* its own to hi.  The sums of a range follow from the sums of its halves.
RECURSIVE AdlerSums(_, _, _)
AdlerSums(data, lo, hi) ==
    IF lo > hi THEN <<0, 0>>
    ELSE IF lo = hi THEN <<data[lo], data[lo]>>
    ELSE LET mid == (lo + hi) \div 2
             x   == AdlerSums(data, lo, mid)
             y   == AdlerSums(data, mid + 1, hi)
         IN  <<(x[1] + y[1]) % 65521,
               (x[2] + (hi - mid) * x[1] + y[2]) % 65521>>

\* Adler-32 of data, the checksum that ends a zlib stream, as its four
\* bytes, the most significant first: a is 1 plus the bytes, b the sum of
\* the values a takes after each byte; b comes first
Adler32(data) ==
    LET sums == AdlerSums(data, 1, Len(data))
        a    == (1 + sums[1]) % 65521
        b    == (Len(data) + sums[2]) % 65521
    IN  <<b \div 256, b % 256, a \div 256, a % 256>>

\* deflate's fixed Huffman code of a literal byte: 8 bits 00110000 + x for
\* x < 144, 9 bits 110010000 + (x - 144) above
LiteralCode(x) == IF x < 144 THEN BitsMSB(48 + x, 8) ELSE BitsMSB(256 + x, 9)

\* The codes of data[lo..hi], one after the other
RECURSIVE Literals(_, _, _)
Literals(data, lo, hi) ==
    IF lo > hi THEN <<>>
    ELSE IF lo = hi THEN LiteralCode(data[lo])
    ELSE Literals(data, lo, (lo + hi) \div 2)
         \o Literals(data, (lo + hi) \div 2 + 1, hi)

\* Bits to bytes, the first bit the least significant of its byte, the last
\* byte filled up with zeros
PackBytes(bits) ==
    LET bit(i) == IF i <= Len(bits) THEN bits[i] ELSE 0
    IN  [k \in 1..((Len(bits) + 7) \div 8) |->
            bit(8 * k - 7) + 2 * bit(8 * k - 6) + 4 * bit(8 * k - 5)
            + 8 * bit(8 * k - 4) + 16 * bit(8 * k - 3) + 32 * bit(8 * k - 2)
            + 64 * bit(8 * k - 1) + 128 * bit(8 * k)]

UnpackBits(bs) ==
    [i \in 1..(8 * Len(bs)) |-> (bs[(i - 1) \div 8 + 1] \div 2^((i - 1) % 8)) % 2]

\* zlib.compress(data) at the default level, for data too short for deflate
\* to find a match (under five bytes): the header 78 9c, one final block of
\* fixed Huffman literals closed by the 7-bit end-of-block code, and the
\* Adler-32 of data, big-endian
zlib_compress(data) ==
    <<120, 156>>
    \o PackBytes(<<1, 1, 0>> \o Literals(data, 1, Len(data)) \o BitsMSB(0, 7))
    \o Adler32(data)

\* ------------------------------------------------------------- inflate
\* The n bits of bits from pos on as a number, the first bit the least
\* significant
RECURSIVE ValLSB(_, _, _)
ValLSB(bits, pos, n) ==
    IF n = 0 THEN 0 ELSE bits[pos] + 2 * ValLSB(bits, pos + 1, n - 1)

\* The first bit of the byte that the bit pos is in or, at a byte's first
\* bit, of that byte
AlignUp(pos) == 8 * ((pos + 6) \div 8) + 1

\* The state of inflate is the output so far, the place of the next bit, ok
\* while the stream is valid, and done once what is being read has ended.
\* Fail is what a step gives when the stream is invalid or ends too early.
Fail == [ok |-> FALSE, done |-> TRUE, out |-> <<>>, pos |-> 0]

\* The state r that steps have led to, when what was being read has ended
\* well; Fail when it has not
Ended(r) == IF r.ok /\ r.done THEN r ELSE Fail

\* A set of code lengths: lens[s + 1] is the length of the code of symbol s,
\* 0 for a symbol without a code.  The codes are the canonical Huffman codes.
CountLen(lens, l) == Cardinality({s \in 1..Len(lens) : lens[s] = l})

\* The k-th symbol, from 0, among those with a code of length l
SymbolAt(lens, l, k) ==
    (CHOOSE s \in 1..Len(lens) :
        /\ lens[s] = l
        /\ Cardinality({r \in 1..(s - 1) : lens[r] = l}) = k) - 1

\* The codes of length l that the codes of the lengths 1..l leave unused
RECURSIVE CodesLeft(_, _)
CodesLeft(lens, l) ==
    IF l = 0 THEN 1 ELSE 2 * CodesLeft(lens, l - 1) - CountLen(lens, l)

\* inflate_table: a set of lengths is refused when it is over-subscribed, or
\* incomplete unless it is a single code of one bit in a literal/length or
\* distance set (complete: it must be complete); a set without any code is
\* accepted
CodeSetOk(lens, complete) ==
    \/ \A l \in 1..15 : CountLen(lens, l) = 0
    \/ /\ \A l \in 1..15 : CodesLeft(lens, l) >= 0
       /\ \/ CodesLeft(lens, 15) = 0
          \/ ~complete /\ \A l \in 2..15 : CountLen(lens, l) = 0

\* One symbol is decoded from bit pos on; l - 1 bits were read, code is
\* their value shifted by one bit, first the first code of length l
RECURSIVE HuffWalk(_, _, _, _, _, _)
HuffWalk(lens, bits, pos, l, code, first) ==
    IF l > 15 \/ pos > Len(bits) THEN [ok |-> FALSE, sym |-> 0, pos |-> pos]
    ELSE IF code + bits[pos] - CountLen(lens, l) < first
    THEN [ok |-> TRUE, sym |-> SymbolAt(lens, l, code + bits[pos] - first),
          pos |-> pos + 1]
    ELSE HuffWalk(lens, bits, pos + 1, l + 1, 2 * (code + bits[pos]),
                  2 * (first + CountLen(lens, l)))

HuffDecode(lens, bits, pos) == HuffWalk(lens, bits, pos, 1, 0, 0)

\* The lengths and distances of the codes 257..285 and 0..29: base value and
\* number of extra bits
LenBase ==
    <<3, 4, 5, 6, 7, 8, 9, 10, 11, 13, 15, 17, 19, 23, 27, 31, 35, 43, 51, 59,
      67, 83, 99, 115, 131, 163, 195, 227, 258>>
LenExtra ==
    <<0, 0, 0, 0, 0, 0, 0, 0, 1, 1, 1, 1, 2, 2, 2, 2, 3, 3, 3, 3, 4, 4, 4, 4,
      5, 5, 5, 5, 0>>
DistBase ==
    <<1, 2, 3, 4, 5, 7, 9, 13, 17, 25, 33, 49, 65, 97, 129, 193, 257, 385,
      513, 769, 1025, 1537, 2049, 3073, 4097, 6145, 8193, 12289, 16385,
      24577>>
DistExtra ==
    <<0, 0, 0, 0, 1, 1, 2, 2, 3, 3, 4, 4, 5, 5, 6, 6, 7, 7, 8, 8, 9, 9, 10,
      10, 11, 11, 12, 12, 13, 13>>

\* The order in which a dynamic block gives the lengths of the code length
\* codes
ClOrder == <<16, 17, 18, 0, 8, 7, 9, 6, 10, 5, 11, 4, 12, 3, 13, 2, 14, 1, 15>>

\* The fixed codes: literal/length symbols 0..287, distance symbols 0..31
FixedLitLen ==
    [s \in 1..288 |-> IF s <= 144 THEN 8 ELSE IF s <= 256 THEN 9
                      ELSE IF s <= 280 THEN 7 ELSE 8]
FixedDist == [s \in 1..32 |-> 5]

\* out followed by n bytes copied from dist bytes back, one at a time: a
\* copy longer than dist repeats the last dist bytes
CopyBack(out, dist, n) ==
    out \o [i \in 1..n |-> out[Len(out) - dist + 1 + ((i - 1) % dist)]]

\* One code of a block from the state st: a literal, the end-of-block code,
\* or a length and a distance.  A match may reach back to the first byte of
\* the output, whatever window the stream's header names: only a distance
\* beyond the output so far fails.
InflateCode(ll, dl, bits, st) ==
    LET s == HuffDecode(ll, bits, st.pos)
    IN  IF ~s.ok THEN Fail
        ELSE IF s.sym < 256
        THEN [st EXCEPT !.out = Append(st.out, s.sym), !.pos = s.pos]
        ELSE IF s.sym = 256 THEN [st EXCEPT !.done = TRUE, !.pos = s.pos]
        ELSE IF s.sym > 285 THEN Fail        \* invalid literal/length code
        ELSE
        LET le == LenExtra[s.sym - 256]
        IN  IF s.pos + le - 1 > Len(bits) THEN Fail
            ELSE
            LET n == LenBase[s.sym - 256] + ValLSB(bits, s.pos, le)
                d == HuffDecode(dl, bits, s.pos + le)
            IN  IF ~d.ok \/ d.sym > 29 THEN Fail      \* invalid distance code
                ELSE
                LET de == DistExtra[d.sym + 1]
                IN  IF d.pos + de - 1 > Len(bits) THEN Fail
                    ELSE
                    LET dist == DistBase[d.sym + 1] + ValLSB(bits, d.pos, de)
                    IN  IF dist > Len(st.out)
                        THEN Fail        \* invalid distance too far back
                        ELSE [st EXCEPT !.out = CopyBack(st.out, dist, n),
                                        !.pos = d.pos + de]

\* At most n codes of a block, one after the other, from the state st
RECURSIVE InflateSpan(_, _, _, _, _)
InflateSpan(ll, dl, bits, st, n) ==
    IF ~st.ok \/ st.done THEN st
    ELSE IF n <= 1 THEN InflateCode(ll, dl, bits, st)
    ELSE InflateSpan(ll, dl, bits,
                     InflateSpan(ll, dl, bits, st, n \div 2), n - n \div 2)

\* The codes of one block from bit pos on, up to its end-of-block code.
\* Every code takes a bit at least, so the block has ended or failed after
\* as many codes as there are bits.
InflateCodes(ll, dl, bits, pos, out) ==
    Ended(InflateSpan(ll, dl, bits,
                      [ok |-> TRUE, done |-> FALSE, out |-> out, pos |-> pos],
                      Len(bits) + 1))

\* A stored block: from the next byte on LEN, its complement, LEN bytes
InflateStored(bits, pos, out) ==
    LET p == AlignUp(pos)
    IN  IF p + 31 > Len(bits) THEN Fail
        ELSE
        LET n == ValLSB(bits, p, 16)
        IN  IF n + ValLSB(bits, p + 16, 16) # 65535 THEN Fail
            ELSE IF p + 31 + 8 * n > Len(bits) THEN Fail
            ELSE [ok |-> TRUE, done |-> TRUE,
                  out |-> out \o [i \in 1..n |-> ValLSB(bits, p + 24 + 8 * i, 8)],
                  pos |-> p + 32 + 8 * n]

\* One symbol of the code lengths of a dynamic block, decoded with the code
\* length code cl: 0..15 is a length, 16 repeats the length before, 17 and
\* 18 repeat 0.  st.out is the lengths so far; done when there are want.
ReadLength(cl, bits, st, want) ==
    LET s == HuffDecode(cl, bits, st.pos)
    IN  IF ~s.ok THEN Fail
        ELSE IF s.sym < 16
        THEN [st EXCEPT !.out = Append(st.out, s.sym), !.pos = s.pos,
                        !.done = (Len(st.out) + 1 = want)]
        ELSE
        LET eb   == IF s.sym = 16 THEN 2 ELSE IF s.sym = 17 THEN 3 ELSE 7
            base == IF s.sym = 18 THEN 11 ELSE 3
        IN  IF s.pos + eb - 1 > Len(bits) THEN Fail
            ELSE IF s.sym = 16 /\ st.out = <<>> THEN Fail
            ELSE
            LET n == base + ValLSB(bits, s.pos, eb)
                v == IF s.sym = 16 THEN st.out[Len(st.out)] ELSE 0
            IN  IF Len(st.out) + n > want THEN Fail
                ELSE [st EXCEPT !.out = st.out \o [i \in 1..n |-> v],
                                !.pos = s.pos + eb,
                                !.done = (Len(st.out) + n = want)]

\* At most n symbols of the code lengths, one after the other
RECURSIVE LengthsSpan(_, _, _, _, _)
LengthsSpan(cl, bits, st, want, n) ==
    IF ~st.ok \/ st.done THEN st
    ELSE IF n <= 1 THEN ReadLength(cl, bits, st, want)
    ELSE LengthsSpan(cl, bits, LengthsSpan(cl, bits, st, want, n \div 2),
                     want, n - n \div 2)

\* The code lengths of a dynamic block, want of them, from bit pos on: every
\* symbol gives a length at least
ReadLengths(cl, bits, pos, lens, want) ==
    Ended(LengthsSpan(cl, bits,
                      [ok |-> TRUE, done |-> (Len(lens) = want),
                       out |-> lens, pos |-> pos],
                      want, want))

\* The lengths of the code length codes of a dynamic block, ncode of them
\* from bit pos on, three bits each, in the order ClOrder
CodeLengthCode(bits, pos, ncode) ==
    [s \in 1..19 |->
        IF \E i \in 1..ncode : ClOrder[i] = s - 1
        THEN ValLSB(bits,
                    pos + 3 * ((CHOOSE i \in 1..ncode : ClOrder[i] = s - 1) - 1),
                    3)
        ELSE 0]

\* The codes of a dynamic block once its code lengths r.out were read: nlen
\* literal/length codes, then ndist distance codes
DynamicCodes(bits, r, nlen, ndist, out) ==
    IF ~r.ok THEN Fail
    ELSE IF r.out[257] = 0 THEN Fail                \* missing end-of-block
    ELSE IF ~CodeSetOk(SubSeq(r.out, 1, nlen), FALSE) THEN Fail
    ELSE IF ~CodeSetOk(SubSeq(r.out, nlen + 1, nlen + ndist), FALSE) THEN Fail
    ELSE InflateCodes(SubSeq(r.out, 1, nlen),
                      SubSeq(r.out, nlen + 1, nlen + ndist), bits, r.pos, out)

\* The two sets of lengths of a dynamic block from bit pos on, read with
\* the code length code cl, then the codes
DynamicLengths(cl, bits, pos, nlen, ndist, out) ==
    IF ~CodeSetOk(cl, TRUE) \/ \A s \in 1..19 : cl[s] = 0 THEN Fail
    ELSE DynamicCodes(bits, ReadLengths(cl, bits, pos, <<>>, nlen + ndist),
                      nlen, ndist, out)

\* The header of a dynamic block once the numbers of its codes are known
DynamicHeader(bits, pos, nlen, ndist, ncode, out) ==
    IF nlen > 286 \/ ndist > 30 THEN Fail
    ELSE IF pos + 13 + 3 * ncode > Len(bits) THEN Fail
    ELSE DynamicLengths(CodeLengthCode(bits, pos + 14, ncode), bits,
                        pos + 14 + 3 * ncode, nlen, ndist, out)

\* A dynamic block: the numbers of codes, the code length code, the two sets
\* of lengths, then the codes
InflateDynamic(bits, pos, out) ==
    IF pos + 13 > Len(bits) THEN Fail
    ELSE DynamicHeader(bits, pos, ValLSB(bits, pos, 5) + 257,
                       ValLSB(bits, pos + 5, 5) + 1,
                       ValLSB(bits, pos + 10, 4) + 4, out)

\* The state r after a block: done when the block was marked as the last
BlockEnd(r, final) == IF ~r.ok THEN Fail ELSE [r EXCEPT !.done = final]

\* The block of the given type from bit pos on
BlockOfType(type, bits, pos, out) ==
    IF type = 0 THEN InflateStored(bits, pos, out)
    ELSE IF type = 1 THEN InflateCodes(FixedLitLen, FixedDist, bits, pos, out)
    ELSE IF type = 2 THEN InflateDynamic(bits, pos, out)
    ELSE Fail                                       \* invalid block type

\* One block from the state st: the bit that marks the last block, two bits
\* of type, the block
InflateBlock(bits, st) ==
    IF st.pos + 2 > Len(bits) THEN Fail
    ELSE BlockEnd(BlockOfType(ValLSB(bits, st.pos + 1, 2), bits, st.pos + 3,
                              st.out),
                  bits[st.pos] = 1)

\* At most n blocks, one after the other, from the state st
RECURSIVE BlocksSpan(_, _, _)
BlocksSpan(bits, st, n) ==
    IF ~st.ok \/ st.done THEN st
    ELSE IF n <= 1 THEN InflateBlock(bits, st)
    ELSE BlocksSpan(bits, BlocksSpan(bits, st, n \div 2), n - n \div 2)

\* The blocks of a deflate stream from bit pos on, up to the end of the
\* block marked final.  Every block takes three bits at least.
InflateBlocks(bits, pos, out) ==
    Ended(BlocksSpan(bits,
                     [ok |-> TRUE, done |-> FALSE, out |-> out, pos |-> pos],
                     Len(bits) + 1))

\* The end of a zlib stream whose blocks led to the state r: the Adler-32
\* of the output follows at the next byte, big-endian
CheckTrailer(bits, r) ==
    IF ~r.ok THEN Raised
    ELSE IF AlignUp(r.pos) + 31 > Len(bits) THEN Raised
    ELSE IF [i \in 1..4 |-> ValLSB(bits, AlignUp(r.pos) + 8 * (i - 1), 8)]
            # Adler32(r.out)
    THEN Raised
    ELSE r.out

\* The blocks and the trailer of a zlib stream, given as bits
InflateStream(bits) == CheckTrailer(bits, InflateBlocks(bits, 1, <<>>))

\* zlib.decompress(bs): the two-byte header is checked (deflate, a window of
\* at most 32K, the check bits, no preset dictionary), the blocks are
\* inflated, and the Adler-32 that follows them is compared.  Bytes after
\* the checksum are ignored; a stream that ends before it is complete
\* raises.
zlib_decompress(bs) ==
    IF Len(bs) < 2 THEN Raised
    ELSE IF \/ bs[1] % 16 # 8 \/ bs[1] \div 16 > 7
            \/ (256 * bs[1] + bs[2]) % 31 # 0 \/ (bs[2] \div 32) % 2 = 1
    THEN Raised
    ELSE InflateStream(UnpackBits(SubSeq(bs, 3, Len(bs))))

\* The character of the base64 alphabet that stands for v in 0..63:
\* A-Z, a-z, 0-9, "+" and "/"
B64Char(v) ==
    IF v < 26 THEN 65 + v
    ELSE IF v < 52 THEN 71 + v
    ELSE IF v < 62 THEN v - 4
    ELSE IF v = 62 THEN 43 ELSE 47

\* The value of the character ch in the alphabet, -1 when it is outside
B64Index(ch) ==
    IF ch >= 65 /\ ch <= 90 THEN ch - 65
    ELSE IF ch >= 97 /\ ch <= 122 THEN ch - 71
    ELSE IF ch >= 48 /\ ch <= 57 THEN ch + 4
    ELSE IF ch = 43 THEN 62
    ELSE IF ch = 47 THEN 63
    ELSE -1

\* The character k of the base64 text of bs: three bytes make four
\* characters of six bits each; in a last group of one or two bytes the
\* missing bytes count as zero and the characters without a bit of data
\* are the padding "=" (61)
B64Place(bs, k) ==
    LET g    == (k - 1) \div 4
        j    == (k - 1) % 4
        b(i) == IF 3 * g + i <= Len(bs) THEN bs[3 * g + i] ELSE 0
        n    == 65536 * b(1) + 256 * b(2) + b(3)
    IN  IF j >= 2 /\ 3 * g + j > Len(bs) THEN 61
        ELSE B64Char((n \div 64^(3 - j)) % 64)

\* b64encode that leaves the last, partial group of bytes out.
b64encode_whole_groups(bs) ==
    [k \in 1..(4 * (Len(bs) \div 3)) |-> B64Place(bs, k)]

\* base64.b64encode(bs).decode('ascii'): four characters for every three
\* bytes, the last group padded
b64encode(bs) ==
    [k \in 1..(4 * ((Len(bs) + 2) \div 3)) |-> B64Place(bs, k)]

\* binascii.a2b_base64 at the character ch.  quad is the place in the group
\* of four, left the bits of the group not yet written, pads the "=" seen
\* in a row.  A character outside the alphabet is skipped; "=" that
\* completes a group begun with two or more characters ends the decoding
\* (done), and what follows it is ignored; any other "=" is skipped.
A2bChar(st, ch) ==
    IF ch = 61
    THEN IF st.quad >= 2 /\ st.quad + st.pads + 1 >= 4
         THEN [st EXCEPT !.done = TRUE]
         ELSE [st EXCEPT !.pads = IF st.quad >= 2 THEN st.pads + 1 ELSE st.pads]
    ELSE IF B64Index(ch) = -1 THEN st
    ELSE IF st.quad = 0
    THEN [st EXCEPT !.quad = 1, !.left = B64Index(ch), !.pads = 0]
    ELSE IF st.quad = 1
    THEN [st EXCEPT !.quad = 2, !.left = B64Index(ch) % 16, !.pads = 0,
                    !.out = Append(st.out, 4 * st.left + B64Index(ch) \div 16)]
    ELSE IF st.quad = 2
    THEN [st EXCEPT !.quad = 3, !.left = B64Index(ch) % 4, !.pads = 0,
                    !.out = Append(st.out, 16 * st.left + B64Index(ch) \div 4)]
    ELSE [st EXCEPT !.quad = 0, !.left = 0, !.pads = 0,
                    !.out = Append(st.out, 64 * st.left + B64Index(ch))]

\* binascii.a2b_base64 over the characters lo..hi of s, one after the other
RECURSIVE a2b_base64(_, _, _, _)
a2b_base64(s, lo, hi, st) ==
    IF st.done \/ lo > hi THEN st
    ELSE IF lo = hi THEN A2bChar(st, s[lo])
    ELSE a2b_base64(s, (lo + hi) \div 2 + 1, hi,
                    a2b_base64(s, lo, (lo + hi) \div 2, st))

\* base64.b64decode(s), validate=False, of a str: s.encode('ascii') raises
\* ValueError on a character outside ASCII before anything is decoded; a
\* text that ends inside a group of four raises (incorrect padding)
b64decode(s) ==
    IF \E i \in 1..Len(s) : s[i] > 127 THEN Raised
    ELSE LET st == a2b_base64(s, 1, Len(s),
                              [quad |-> 0, left |-> 0, pads |-> 0,
                               out |-> <<>>, done |-> FALSE])
         IN  IF ~st.done /\ st.quad # 0 THEN Raised ELSE st.out

\* encode_model_data: None for None and for b'' (if data:)
encode_model_data(data) ==
    IF data = NoData \/ data = <<>> THEN NoStr
    ELSE b64encode(zlib_compress(data))

\* decode_model_data: None for None
decode_model_data(data) ==
    IF data = NoStr THEN NoData
    ELSE IF b64decode(data) = Raised THEN Raised
    ELSE zlib_decompress(b64decode(data))

\* ------------------------------------------------------------- handlers
\* start_crawl replacing the registry entry without stopping the old process
start_crawl_no_stop(run, request, w, t, f) ==
    IF request.type # "obj"
    THEN [raised |-> TRUE, running |-> run, w |-> w]
    ELSE
    LET id_ == request.id
        popped == DictPop(run, id_)
        clf == decode_page_model(request.page_model)
    IN  IF clf.raised THEN [raised |-> TRUE, running |-> popped, w |-> w]
        ELSE
        LET st == start(Process(id_, request.seeds, gen_job_path(id_, t), NoPid,
                                    clf.data),
                        w, f)
        IN  IF st.raised
            THEN [raised |-> TRUE, running |-> popped, w |-> st.w]
            ELSE [raised |-> FALSE, running |-> DictSet(popped, st.p),
                  w |-> st.w]

\* Service.start_crawl, without its decorator
start_crawl(run, request, w, t, f) ==
    IF request.type # "obj"                         \* request['id']: TypeError
    THEN [raised |-> TRUE, running |-> run, w |-> w]
    ELSE
    LET id_ == request.id
        popped == DictPop(run, id_)
        s == IF Has(run, id_) THEN stop(DictGet(run, id_), w, f)
             ELSE [raised |-> FALSE, w |-> w]
    IN  IF s.raised THEN [raised |-> TRUE, running |-> popped, w |-> s.w]
        ELSE
        LET clf == decode_page_model(request.page_model)
        IN  IF clf.raised THEN [raised |-> TRUE, running |-> popped, w |-> s.w]
            ELSE
            LET st == start(Process(id_, request.seeds, gen_job_path(id_, t), NoPid,
                                    clf.data),
                            s.w, f)
            IN  IF st.raised
                THEN [raised |-> TRUE, running |-> popped, w |-> st.w]
                ELSE [raised |-> FALSE, running |-> DictSet(popped, st.p),
                      w |-> st.w]

\* stop_crawl keeping the stopped process, its pid None, in the registry.
stop_crawl_keeps(run, request, w, f) ==
    LET id_ == request.id
    IN  IF Has(run, id_)
        THEN LET s == stop(DictGet(run, id_), w, f)
             IN  IF s.raised THEN [raised |-> TRUE, running |-> run, w |-> s.w]
                 ELSE [raised |-> FALSE, running |-> DictSet(run, s.p),
                       w |-> s.w]
        ELSE [raised |-> FALSE, running |-> run, w |-> w]

\* Service.stop_crawl, without its decorator
stop_crawl(run, request, w, f) ==
    LET id_ == request.id
    IN  IF Has(run, id_)
        THEN LET s == stop(DictGet(run, id_), w, f)
             IN  IF s.raised THEN [raised |-> TRUE, running |-> run, w |-> s.w]
                 ELSE [raised |-> FALSE, running |-> DictPop(run, id_),
                       w |-> s.w]
        ELSE [raised |-> FALSE, running |-> run, w |-> w]

\* utils.log_ignore_exception: the decorated handler's exception is logged
\* and swallowed; what the handler changed before raising stays changed
log_ignore_exception(res) ==
    [running |-> res.running, w |-> res.w, logged |-> res.raised,
     raised |-> FALSE]

\* Service.run: the body of `for message in self.consumer`, for one message
run_body(run, m, w, t, f) ==
    IF m.type = "garbage"
    THEN [op |-> "decode_error", running |-> run, w |-> w, logged |-> TRUE,
          raised |-> FALSE]
    ELSE
    LET op == Dispatch(m)
        same == [op |-> op, running |-> run, w |-> w, logged |-> FALSE,
                 raised |-> FALSE]
    IN  IF op = "return" THEN same
        ELSE IF op = "raise" THEN [same EXCEPT !.raised = TRUE]
        ELSE IF op = "drop" THEN [same EXCEPT !.logged = TRUE]
        ELSE
        LET res == IF op = "start_crawl"
                   THEN log_ignore_exception(start_crawl(run, m, w, t, f))
                   ELSE log_ignore_exception(stop_crawl(run, m, w, f))
        IN  [op |-> op, running |-> res.running, w |-> res.w,
             logged |-> res.logged, raised |-> res.raised]

\* The decimal digits of the number in a checkpoint's name, and the order of
\* the names as strings
Digits(n) == IF n < 10 THEN <<n>> ELSE <<n \div 10, n % 10>>
LexLess(a, b) ==
    LET x == Digits(a)
        y == Digits(b)
    IN  \/ x[1] < y[1]
        \/ x[1] = y[1] /\ Len(x) < Len(y)
        \/ x[1] = y[1] /\ Len(x) = 2 /\ Len(y) = 2 /\ x[2] < y[2]
MaxOf(S) == CHOOSE x \in S : \A y \in S : y <= x

\* get_new_model sorting the checkpoint files by name instead of by number
get_new_model_by_name(p, dk) ==
    LET files == dk[p.root].models
        top   == CHOOSE x \in files : \A y \in files \ {x} : LexLess(y, x)
    IN  IF files # {} /\ top # p.last_model_file
        THEN [tag |-> "value", data |-> <<"Q", top>>,
              p |-> [p EXCEPT !.last_model_file = top]]
        ELSE [tag |-> "none", p |-> p]

\* DeepDeepProcess.get_new_model: the checkpoint with the largest number,
\* if it is not the one returned last
get_new_model(p, dk) ==
    LET files == dk[p.root].models
    IN  IF files # {} /\ MaxOf(files) # p.last_model_file
        THEN [tag |-> "value", data |-> <<"Q", MaxOf(files)>>,
              p |-> [p EXCEPT !.last_model_file = MaxOf(files)]]
        ELSE [tag |-> "none", p |-> p]

\* send_updates sending the sample urls before the progress.
send_updates_body_pages_first(p, dk, t, g) ==
    LET u   == get_updates(p, dk, t)
        p1  == u.p
        m1  == IF u.tag = "value"
               THEN << [topic |-> "progress", id |-> p.id_, body |-> u.progress] >>
               ELSE <<>>
        m2  == IF u.tag = "value" /\ u.pages # <<>>
               THEN << [topic |-> "pages", id |-> p.id_, body |-> u.pages] >>
               ELSE <<>>
        n   == get_new_model(p1, dk)
        m3  == IF n.tag = "value"
               THEN << [topic |-> "model", id |-> p.id_, body |-> n.data] >>
               ELSE <<>>
    IN  IF g = 1 THEN [raised |-> TRUE, p |-> p, out |-> <<>>, updates |-> "raised"]
        ELSE IF g = 2 /\ m1 # <<>>
        THEN [raised |-> TRUE, p |-> p1, out |-> <<>>, updates |-> u.tag]
        ELSE IF g = 3 /\ m2 # <<>>
        THEN [raised |-> TRUE, p |-> p1, out |-> m1, updates |-> u.tag]
        ELSE IF g = 4
        THEN [raised |-> TRUE, p |-> p1, out |-> m2 \o m1, updates |-> u.tag]
        ELSE IF g = 5 /\ m3 # <<>>
        THEN [raised |-> TRUE, p |-> n.p, out |-> m2 \o m1, updates |-> u.tag]
        ELSE [raised |-> FALSE, p |-> n.p, out |-> m2 \o m1 \o m3,
              updates |-> u.tag]

\* Service.send_updates: the body of its loop, for one process.  g numbers
\* the step that raises (0: none): 1 get_updates, 2 the progress send, 3 the
\* pages send, 4 get_new_model, 5 the model send.  A step that is not taken
\* cannot raise.
send_updates_body(p, dk, t, g) ==
    LET u   == get_updates(p, dk, t)
        p1  == u.p
        m1  == IF u.tag = "value"
               THEN << [topic |-> "progress", id |-> p.id_, body |-> u.progress] >>
               ELSE <<>>
        m2  == IF u.tag = "value" /\ u.pages # <<>>
               THEN << [topic |-> "pages", id |-> p.id_, body |-> u.pages] >>
               ELSE <<>>
        n   == get_new_model(p1, dk)
        m3  == IF n.tag = "value"
               THEN << [topic |-> "model", id |-> p.id_, body |-> n.data] >>
               ELSE <<>>
    IN  IF g = 1 THEN [raised |-> TRUE, p |-> p, out |-> <<>>, updates |-> "raised"]
        ELSE IF g = 2 /\ m1 # <<>>
        THEN [raised |-> TRUE, p |-> p1, out |-> <<>>, updates |-> u.tag]
        ELSE IF g = 3 /\ m2 # <<>>
        THEN [raised |-> TRUE, p |-> p1, out |-> m1, updates |-> u.tag]
        ELSE IF g = 4
        THEN [raised |-> TRUE, p |-> p1, out |-> m1 \o m2, updates |-> u.tag]
        ELSE IF g = 5 /\ m3 # <<>>
        THEN [raised |-> TRUE, p |-> n.p, out |-> m1 \o m2, updates |-> u.tag]
        ELSE [raised |-> FALSE, p |-> n.p, out |-> m1 \o m2 \o m3,
              updates |-> u.tag]

\* ------------------------------------------------------- the state machine
MaxCalls == 3              \* docker calls of one handler: stop, rm, run
check_updates_every == 50
FailAt == 0..MaxCalls
Steps == 0..5

Handled(op, arg, tag, calls, logged, raised) ==
    [op |-> op, arg |-> arg, tag |-> tag, calls |-> calls, logged |-> logged,
     raised |-> raised]

NoContainers == [c \in Cids |-> Absent]

\* f names a call the handler made (a call it did not make cannot fail)
Faulty(calls, f) == f = 0 \/ f <= Len(calls)

\* A fresh host: no job directory, no container, Service.__init__ about to
\* call load_all_running.
Init ==
    /\ now = 0
    /\ disk = <<>>
    /\ containers = NoContainers
    /\ nextCid = 1
    /\ running = <<>>
    /\ pc = "loading"
    /\ todo = <<>>
    /\ counter = 0
    /\ cursor = 0
    /\ sent = <<>>
    /\ returned = [i \in Ids |-> NoText]
    /\ delivered = [i \in Ids |-> {}]
    /\ uncommitted = FALSE
    /\ last = Handled("init", None, None, <<>>, FALSE, FALSE)

\* load_all_running visits the next directory; an exception ends __init__
LoadStep(f) ==
    /\ pc = "loading"
    /\ todo # <<>>
    /\ \E res \in {load_all_running_body(running, Head(todo), World, f)} :
           /\ running' = IF res.raised THEN <<>> ELSE res.running
           /\ disk' = res.w.disk
           /\ containers' = res.w.containers
           /\ nextCid' = res.w.nextCid
           /\ pc' = IF res.raised THEN "crashed" ELSE "loading"
           /\ todo' = IF res.raised THEN <<>> ELSE Tail(todo)
           /\ Faulty(res.w.calls, f)
           /\ last' = Handled("load_running", Head(todo), res.tag,
                              res.w.calls, FALSE, res.raised)
    /\ UNCHANGED <<now, counter, cursor, sent, returned, delivered,
                   uncommitted>>

\* load_all_running returns, __init__ ends, run() starts its first iteration
LoadDone ==
    /\ pc = "loading"
    /\ todo = <<>>
    /\ pc' = "loop"
    /\ counter' = 1
    /\ last' = Handled("run", None, None, <<>>, FALSE, FALSE)
    /\ UNCHANGED <<now, disk, containers, nextCid, running, todo, cursor,
                   sent, returned, delivered, uncommitted>>

\* What the log line of a handled command names: its id
Summary(m) == IF m \in StartMsgs \cup StopMsgs THEN m.id ELSE None

\* The docker calls that may fail while m is handled
FailsFor(m) == IF m \in StartMsgs \cup StopMsgs THEN FailAt ELSE {0}

\* One message of the consumer is handled.  run() returning or raising ends
\* the process: its registry and counter are gone.
Receive(m, f) ==
    /\ pc = "loop"
    /\ m \in StartMsgs => nextCid <= MaxContainers
    /\ \E res \in {run_body(running, m, World, now, f)} :
         \E ends \in {res.raised \/ res.op = "return"} :
           /\ running' = IF ends THEN <<>> ELSE res.running
           /\ disk' = res.w.disk
           /\ containers' = res.w.containers
           /\ nextCid' = res.w.nextCid
           /\ pc' = IF res.raised THEN "crashed"
                    ELSE IF res.op = "return" THEN "stopped" ELSE "loop"
           /\ counter' = IF ends THEN 0 ELSE counter
           /\ returned' = IF res.op = "start_crawl" /\ m.type = "obj"
                          THEN [returned EXCEPT ![m.id] = NoText]
                          ELSE returned
           /\ delivered' = IF res.op = "start_crawl" /\ m.type = "obj"
                           THEN [delivered EXCEPT ![m.id] = {}]
                           ELSE delivered
           /\ last' = Handled(res.op, Summary(m),
                              IF m \in StartMsgs THEN m.page_model ELSE None,
                              res.w.calls, res.logged, res.raised)
           /\ Faulty(res.w.calls, f)
    /\ uncommitted' = TRUE
    /\ UNCHANGED <<now, todo, cursor, sent>>

\* The consumer times out: the iteration ends with send_updates, if due, and
\* the commit, and the next iteration starts with counter += 1.
\* run() committing before it calls send_updates
EndBatchCommitFirst ==
    /\ pc = "loop"
    /\ IF counter % check_updates_every = 0
       THEN /\ pc' = "broadcast"
            /\ cursor' = 1
            /\ sent' = <<>>
            /\ counter' = counter
       ELSE /\ pc' = "loop"
            /\ counter' = counter + 1
            /\ UNCHANGED <<cursor, sent>>
    /\ uncommitted' = FALSE
    /\ UNCHANGED <<now, disk, containers, nextCid, running, todo, returned,
                   delivered, last>>

\* Service.run: the end of an iteration
EndBatch ==
    /\ pc = "loop"
    /\ IF counter % check_updates_every = 0
       THEN /\ pc' = "broadcast"
            /\ cursor' = 1
            /\ sent' = <<>>
            /\ counter' = counter
            /\ UNCHANGED uncommitted
       ELSE /\ pc' = "loop"
            /\ counter' = counter + 1
            /\ uncommitted' = FALSE                  \* self.consumer.commit()
            /\ UNCHANGED <<cursor, sent>>
    /\ UNCHANGED <<now, disk, containers, nextCid, running, todo, returned,
                   delivered, last>>

\* send_updates polls the next process of self.running.items(); an exception
\* ends send_updates (log_ignore_exception), and the iteration with it
BroadcastStep(g) ==
    /\ pc = "broadcast"
    /\ cursor <= Len(running)
    /\ \E res \in {send_updates_body(running[cursor], disk, now, g)} :
           /\ running' = [running EXCEPT ![cursor] = res.p]
           /\ sent' = sent \o res.out
           /\ cursor' = IF res.raised THEN 0 ELSE cursor + 1
           /\ pc' = IF res.raised THEN "loop" ELSE "broadcast"
           /\ counter' = IF res.raised THEN counter + 1 ELSE counter
           /\ returned' = IF res.updates = "value"
                          THEN [returned EXCEPT ![running[cursor].id_] =
                                    get_updates_raw(running[cursor], disk).progress]
                          ELSE returned
           /\ delivered' =
                  IF res.p.last_model_file # running[cursor].last_model_file
                  THEN [delivered EXCEPT ![running[cursor].id_] =
                            @ \cup {res.p.last_model_file}]
                  ELSE delivered
           /\ last' = Handled("send_updates", running[cursor].id_,
                              res.updates, <<>>, res.raised, FALSE)
           /\ uncommitted' = IF res.raised THEN FALSE ELSE uncommitted
    /\ UNCHANGED <<now, disk, containers, nextCid, todo>>

\* send_updates returns; the iteration ends with the commit
BroadcastEnd ==
    /\ pc = "broadcast"
    /\ cursor > Len(running)
    /\ pc' = "loop"
    /\ cursor' = 0
    /\ counter' = counter + 1
    /\ last' = Handled("commit", None, None, <<>>, FALSE, FALSE)
    /\ uncommitted' = FALSE                          \* self.consumer.commit()
    /\ UNCHANGED <<now, disk, containers, nextCid, running, todo, sent,
                   returned, delivered>>

\* The service is started again after run() returned or raised
Restart ==
    /\ pc \in {"stopped", "crashed"}
    /\ pc' = "loading"
    /\ todo' = SortedDirs(DOMAIN disk)
    /\ running' = <<>>
    /\ returned' = [i \in Ids |-> NoText]
    /\ delivered' = [i \in Ids |-> {}]
    /\ last' = Handled("init", None, None, <<>>, FALSE, FALSE)
    /\ UNCHANGED <<now, disk, containers, nextCid, counter, cursor, sent,
                   uncommitted>>

\* ---------------------------------------------------------- environment
Tick ==
    /\ now < MaxTime
    /\ now' = now + 1
    /\ UNCHANGED <<disk, containers, nextCid, running, pc, todo, counter,
                   cursor, sent, returned, delivered, uncommitted, last>>

\* A worker ends by itself: its container is no longer running
WorkerExit(c) ==
    /\ containers[c].state = "running"
    /\ containers' = [containers EXCEPT ![c].state = "exited"]
    /\ UNCHANGED <<now, disk, nextCid, running, pc, todo, counter, cursor,
                   sent, returned, delivered, uncommitted, last>>

\* A running worker appends to items.jl.gz of the directory mounted in it
WorkerWrite(c, k) ==
    /\ containers[c].state = "running"
    /\ disk[containers[c].job].items # k
    /\ disk' = [disk EXCEPT ![containers[c].job].items = k]
    /\ UNCHANGED <<now, containers, nextCid, running, pc, todo, counter,
                   cursor, sent, returned, delivered, uncommitted, last>>

\* A running worker writes the checkpoint Q-<n>.joblib
WorkerCheckpoint(c, n) ==
    /\ containers[c].state = "running"
    /\ n \notin disk[containers[c].job].models
    /\ disk' = [disk EXCEPT ![containers[c].job].models = @ \cup {n}]
    /\ UNCHANGED <<now, containers, nextCid, running, pc, todo, counter,
                   cursor, sent, returned, delivered, uncommitted, last>>

\* Commands and reconciliation: the service on a fresh host, restarted
\* whenever run() ends.  Within MaxIter iterations no broadcast is due.
Next ==
    \/ \E f \in FailAt : LoadStep(f)
    \/ LoadDone
    \/ \E m \in Messages : \E f \in FailsFor(m) : Receive(m, f)
    \/ counter < MaxIter /\ EndBatch
    \/ Restart
    \/ Tick
    \/ \E c \in Cids : WorkerExit(c)

Spec == Init /\ [][Next]_vars

\* Polling: the service in its loop after start-crawl commands for the ids
\* a, or a and b, handled at time 0 in the iteration before the first
\* broadcast is due; the workers run and write while the service polls.
RECURSIVE Started(_, _)
Started(ids, acc) ==
    IF ids = <<>> THEN acc
    ELSE Started(Tail(ids),
                 start_crawl(acc.running,
                             Obj({"id", "page_model", "seeds"}, Head(ids),
                                 "ok", FALSE, None),
                             [acc.w EXCEPT !.calls = <<>>], 0, 0))

InitUpdates ==
    \E ids \in {<<"a">>, <<"a", "b">>} :
        LET st == Started(ids, [raised |-> FALSE, running |-> <<>>,
                                w |-> [disk |-> <<>>,
                                       containers |-> NoContainers,
                                       nextCid |-> 1, calls |-> <<>>]])
        IN  /\ now = 0
            /\ disk = st.w.disk
            /\ containers = st.w.containers
            /\ nextCid = st.w.nextCid
            /\ running = st.running
            /\ pc = "loop"
            /\ todo = <<>>
            /\ counter = check_updates_every - 1
            /\ cursor = 0
            /\ sent = <<>>
            /\ returned = [i \in Ids |-> NoText]
            /\ delivered = [i \in Ids |-> {}]
            /\ uncommitted = TRUE
            /\ last = Handled("start_crawl", Head(ids), None, st.w.calls,
                               FALSE, FALSE)

NextUpdates ==
    \/ counter <= MaxRounds * check_updates_every /\ EndBatch
    \/ \E g \in Steps : BroadcastStep(g)
    \/ BroadcastEnd
    \/ Tick
    \/ \E c \in Cids, k \in 0..NItems : WorkerWrite(c, k)
    \/ \E c \in Cids, n \in 1..MaxModel : WorkerCheckpoint(c, n)

SpecUpdates == InitUpdates /\ [][NextUpdates]_vars

\* The whole loop: commands are handled, iterations end, broadcasts run
NextLoop ==
    \/ \E m \in Messages : \E f \in FailsFor(m) : Receive(m, f)
    \/ counter <= MaxRounds * check_updates_every /\ EndBatch
    \/ \E g \in Steps : BroadcastStep(g)
    \/ BroadcastEnd

SpecLoop == InitUpdates /\ [][NextLoop]_vars

\* Checkpoints: the service polls while the workers write checkpoint files
\* whose numbers do not sort alike as numbers and as names
CheckpointNo(k) == 5 * k

NextModels ==
    \/ counter <= MaxRounds * check_updates_every /\ EndBatch
    \/ \E g \in Steps : BroadcastStep(g)
    \/ BroadcastEnd
    \/ \E c \in Cids, k \in 1..MaxCheckpoints :
          WorkerCheckpoint(c, CheckpointNo(k))

SpecModels == InitUpdates /\ [][NextModels]_vars

\* The sample quota: a process whose progress was last seen to change at
\* some second (or never) is asked for its quota as the clock advances
MaxIdle == 61

InitQuota ==
    \E lpt \in {NoTime} \cup (0..MaxIdle) :
        LET st == Started(<<"a">>, [raised |-> FALSE, running |-> <<>>,
                                    w |-> [disk |-> <<>>,
                                           containers |-> NoContainers,
                                           nextCid |-> 1, calls |-> <<>>]])
            p  == st.running[1]
        IN  /\ now = IF lpt = NoTime THEN 0 ELSE lpt
            /\ disk = st.w.disk
            /\ containers = st.w.containers
            /\ nextCid = st.w.nextCid
            /\ running = IF lpt = NoTime THEN <<p>>
                         ELSE <<get_updates(p, st.w.disk, lpt).p>>
            /\ pc = "loop"
            /\ todo = <<>>
            /\ counter = 1
            /\ cursor = 0
            /\ sent = <<>>
            /\ returned = [i \in Ids |-> NoText]
            /\ delivered = [i \in Ids |-> {}]
            /\ uncommitted = FALSE
            /\ last = Handled("start_crawl", "a", None, st.w.calls,
                               FALSE, FALSE)

\* time.time() advances by a second
QuotaTick ==
    /\ now < MaxIdle
    /\ now' = now + 1
    /\ UNCHANGED <<disk, containers, nextCid, running, pc, todo, counter,
                   cursor, sent, returned, delivered, uncommitted, last>>

\* get_n_last is called on the registered process; last.arg is the pair of
\* its last_progress_time and the clock, last.tag the quota returned
GetNLast ==
    /\ running # <<>>
    /\ last' = Handled("get_n_last",
                       <<running[1].last_progress_time, now>>,
                       get_n_last(running[1], now), <<>>, FALSE, FALSE)
    /\ UNCHANGED <<now, disk, containers, nextCid, running, pc, todo,
                   counter, cursor, sent, returned, delivered, uncommitted>>

NextQuota ==
    \/ QuotaTick
    \/ GetNLast

SpecQuota == InitQuota /\ [][NextQuota]_vars

\* The model payload: the bytes of a model file (or None) are encoded, and
\* what was encoded is decoded, as the receiver of the update does
MaxLen == 3
ByteValues == {0, 97, 98, 255}
ModelData == {NoData} \cup UNION {[1..n -> ByteValues] : n \in 0..MaxLen}

InitCodec ==
    \E data \in ModelData :
        /\ now = 0
        /\ disk = <<>>
        /\ containers = NoContainers
        /\ nextCid = 1
        /\ running = <<>>
        /\ pc = "loop"
        /\ todo = <<>>
        /\ counter = 1
        /\ cursor = 0
        /\ sent = <<>>
        /\ returned = [i \in Ids |-> NoText]
        /\ delivered = [i \in Ids |-> {}]
        /\ uncommitted = FALSE
        /\ last = Handled("read_bytes", None, data, <<>>, FALSE, FALSE)

\* encode_model_data(data): last.arg is data, last.tag the payload
EncodeStep ==
    /\ last.op = "read_bytes"
    /\ last' = Handled("encode_model_data", last.tag,
                       encode_model_data(last.tag), <<>>, FALSE, FALSE)
    /\ UNCHANGED <<now, disk, containers, nextCid, running, pc, todo,
                   counter, cursor, sent, returned, delivered, uncommitted>>

\* decode_model_data(payload): last.arg is the pair of data and payload,
\* last.tag what the payload decodes to
DecodeStep ==
    /\ last.op = "encode_model_data"
    /\ \E res \in {decode_model_data(last.tag)} :
          last' = Handled("decode_model_data", <<last.arg, last.tag>>, res,
                          <<>>, FALSE, res = Raised)
    /\ UNCHANGED <<now, disk, containers, nextCid, running, pc, todo,
                   counter, cursor, sent, returned, delivered, uncommitted>>

NextCodec ==
    \/ EncodeStep
    \/ DecodeStep

SpecCodec == InitCodec /\ [][NextCodec]_vars

\* Crashes inside a handler: the service process is killed while start()
\* or stop() runs, between two of its statements.
\* DeepDeepProcess.start, killed after docker run returned and before
\* pid.txt is written: all that start wrote but pid.txt
start_killed(p, w) ==
    LET st  == start(p, w, 0)
        was == IF p.root \in DOMAIN w.disk THEN w.disk[p.root].pid ELSE NoPid
    IN  [reached |-> ~st.raised,
         w |-> IF st.raised THEN st.w
               ELSE [st.w EXCEPT !.disk[p.root].pid = was]]

\* Service.start_crawl, killed inside process.start()
start_crawl_killed(run, request, w, t) ==
    LET id_ == request.id
        s   == IF Has(run, id_) THEN stop(DictGet(run, id_), w, 0)
               ELSE [raised |-> FALSE, w |-> w]
        clf == decode_page_model(request.page_model)
    IN  IF s.raised \/ clf.raised THEN [reached |-> FALSE, w |-> s.w]
        ELSE start_killed(Process(id_, request.seeds, gen_job_path(id_, t),
                                  NoPid, clf.data),
                          s.w)

\* DeepDeepProcess.stop, killed after docker stop (k = 1) or docker rm
\* (k = 2) returned and before pid.txt is unlinked
stop_killed(p, w, k) ==
    IF p.pid = NoPid THEN [reached |-> FALSE, w |-> w]
    ELSE LET r1 == docker(w, "stop", p.pid, p.root, 0)
             r2 == docker(r1.w, "rm", p.pid, p.root, 0)
         IN  IF ~r1.ok THEN [reached |-> FALSE, w |-> r1.w]
             ELSE IF k = 1 THEN [reached |-> TRUE, w |-> r1.w]
             ELSE [reached |-> r2.ok, w |-> r2.w]

\* The service is killed: its registry and counter are gone, the message it
\* was handling is not committed
Killed(id, w) ==
    /\ disk' = w.disk
    /\ containers' = w.containers
    /\ nextCid' = w.nextCid
    /\ running' = <<>>
    /\ pc' = "crashed"
    /\ counter' = 0
    /\ uncommitted' = TRUE
    /\ last' = Handled("killed", id, None, w.calls, FALSE, TRUE)
    /\ UNCHANGED <<now, todo, cursor, sent, returned, delivered>>

KillInStart(m) ==
    /\ pc = "loop"
    /\ nextCid <= MaxContainers
    /\ \E res \in {start_crawl_killed(running, m, World, now)} :
          res.reached /\ Killed(m.id, res.w)

KillInStop(m, k) ==
    /\ pc = "loop"
    /\ Has(running, m.id)
    /\ \E res \in {stop_killed(DictGet(running, m.id), World, k)} :
          res.reached /\ Killed(m.id, res.w)

NextCrash ==
    \/ \E f \in FailAt : LoadStep(f)
    \/ LoadDone
    \/ \E m \in Messages : \E f \in FailsFor(m) : Receive(m, f)
    \/ counter < MaxIter /\ EndBatch
    \/ Restart
    \/ Tick
    \/ \E c \in Cids : WorkerExit(c)
    \/ \E m \in StartMsgs : KillInStart(m)
    \/ \E m \in StartMsgs \cup StopMsgs, k \in 1..2 : KillInStop(m, k)

SpecCrash == Init /\ [][NextCrash]_vars

\* ---------------------------------------------------------------- claims
AllFiles(rec) == rec.id # None /\ rec.pid # NoPid /\ rec.seeds /\ rec.page_clf
SomeCallFailed(calls) == \E i \in 1..Len(calls) : ~calls[i].ok

\* The step is load_all_running's visit of the directory Head(todo)
LoadStepTaken == pc = "loading" /\ todo # <<>> /\ todo' # todo

\* The step is send_updates' poll of the process running[cursor]
PollTaken == pc = "broadcast" /\ cursor <= Len(running) /\ cursor' # cursor

\* C1: a start-crawl for a registered id stops the old process before the
\* new one is started, and a failing stop of the old process does not keep
\* the new process from being started and registered: after the stop and rm
\* calls for the old process, failed or not, docker run is called, and when
\* it succeeds the id is registered with the new container.
C1_ReplacementSurvivesStopFailure ==
    (/\ last.op = "start_crawl"
     /\ last.tag = "ok"
     /\ last.calls # <<>>
     /\ last.calls[1].cmd = "stop")
    => \E i \in 1..Len(last.calls) :
          /\ last.calls[i].cmd = "run"
          /\ \A j \in 1..Len(last.calls) :
                last.calls[j].cmd \in {"stop", "rm"} => j < i
          /\ last.calls[i].ok =>
                /\ pc = "loop"
                /\ Has(running, last.arg)
                /\ DictGet(running, last.arg).pid = last.calls[i].cid

\* C2: between command handlings, pid.txt exists in a job directory if and
\* only if the registry holds a process for that directory with its pid set.
C2_MarkerIffRegistered ==
    pc = "loop" =>
        \A d \in DOMAIN disk :
            disk[d].pid # NoPid <=>
                \E i \in 1..Len(running) :
                    running[i].root = d /\ running[i].pid # NoPid

\* C3: a stop-crawl for a registered id whose docker stop or rm fails is
\* logged, and the process is removed from the registry all the same.
C3_EvictedRegardless ==
    (last.op = "stop_crawl" /\ SomeCallFailed(last.calls))
    => last.logged /\ ~Has(running, last.arg)

\* C4: a message that does not parse, or parses to a value without the keys
\* of a start-crawl or stop-crawl command (a non-object included), is dropped
\* with a logged error: registry, disk and runtime are unchanged, no docker
\* call is made and the loop goes on.
Malformed == {[type |-> "garbage"]} \cup NonObjects \cup IncompleteMsgs
C4_MalformedDropped ==
    [][\A m \in Malformed :
          Receive(m, 0) =>
              /\ running' = running
              /\ disk' = disk
              /\ containers' = containers
              /\ last'.logged
              /\ last'.calls = <<>>
              /\ pc' = "loop"]_vars

\* C5: run() ends only on the administrative stop message; a start-crawl or
\* stop-crawl whose docker call failed leaves the loop running.
C5_OnlyAdminStopEndsLoop ==
    /\ (pc \in {"stopped", "crashed"} /\ last.op # "load_running")
           => last.op = "return"
    /\ last.op \in {"start_crawl", "stop_crawl"}
           => pc \notin {"stopped", "crashed"}

\* C6: load_all_running visits the directories in name order, and when the
\* directory it visits loads as a running process whose id the registry
\* already holds, the older process (from a directory earlier in name order)
\* is stopped: its container stopped and removed, its pid.txt deleted; the
\* registry then holds the process of the later directory for that id, and
\* no other.
C6_LaterDirectoryWins ==
    [][LoadStepTaken =>
          /\ \A j \in 2..Len(todo) : NameLess(Head(todo), todo[j])
          /\ (/\ last'.tag = "process"
              /\ ~last'.raised
              /\ Has(running, disk[Head(todo)].id))
             => LET d   == Head(todo)
                    id  == disk[d].id
                    old == DictGet(running, id)
                    new == DictGet(running', id)
                IN  /\ NameLess(old.root, d)
                    /\ new.root = d
                    /\ new.pid = disk[d].pid
                    /\ Cardinality({i \in 1..Len(running') :
                                       running'[i].id_ = id}) = 1
                    /\ containers'[old.pid].state = "absent"
                    /\ disk'[old.root].pid = NoPid
                    /\ \E i \in 1..Len(last'.calls) :
                          last'.calls[i] = [cmd |-> "stop", cid |-> old.pid,
                                            ok |-> TRUE]]_vars

C6_Witness ==
    /\ last.op = "load_running"
    /\ last.tag = "process"
    /\ ~last.raised
    /\ \E i \in 1..Len(last.calls) :
          last.calls[i].cmd = "rm" /\ last.calls[i].ok
    /\ \E i \in 1..Len(running) : running[i].root = last.arg

\* C7: reconciliation is never fatal: a load that meets a failing docker
\* call does not raise; the directory counts as not running, its pid.txt is
\* removed, and load_all_running goes on.
C7_ReconciliationNeverFatal ==
    last.op = "load_running" =>
        /\ ~last.raised
        /\ pc # "crashed"
        /\ SomeCallFailed(last.calls) =>
               last.tag = "none" /\ disk[last.arg].pid = NoPid

\* C8: load_running returns a process if and only if id.txt, pid.txt,
\* seeds.txt and page_clf.joblib all exist and docker inspect of the pid
\* reports Running; with a file missing it returns none, calls docker not at
\* all and changes nothing.
C8_LoadRunningIff ==
    [][LoadStepTaken =>
          LET rec   == disk[Head(todo)]
              alive == /\ last'.calls # <<>>
                       /\ last'.calls[1] = [cmd |-> "inspect",
                                            cid |-> rec.pid, ok |-> TRUE]
                       /\ containers[rec.pid].state = "running"
          IN  /\ last'.tag = "process" <=> (AllFiles(rec) /\ alive)
              /\ ~AllFiles(rec) =>
                    /\ last'.tag = "none"
                    /\ last'.calls = <<>>
                    /\ disk' = disk
                    /\ containers' = containers
                    /\ running' = running]_vars

C8_Witness ==
    /\ last.op = "load_running"
    /\ last.tag = "none"
    /\ last.calls = <<>>
    /\ disk[last.arg].id # None
    /\ disk[last.arg].pid = NoPid

\* C9: with all files present and a stale pid, load_running cleans up: if
\* docker inspect fails, pid.txt is deleted and none is returned; if it
\* reports not Running, pid.txt is deleted, docker rm is called and none is
\* returned.
C9_StaleHandleCleaned ==
    [][(LoadStepTaken /\ AllFiles(disk[Head(todo)])) =>
          LET d   == Head(todo)
              pid == disk[d].pid
              c   == last'.calls
          IN  /\ c # <<>>
              /\ c[1].cmd = "inspect"
              /\ c[1].cid = pid
              /\ ~c[1].ok =>
                    /\ Len(c) = 1
                    /\ disk'[d].pid = NoPid
                    /\ last'.tag = "none"
              /\ (c[1].ok /\ containers[pid].state # "running") =>
                    /\ disk'[d].pid = NoPid
                    /\ Len(c) = 2
                    /\ c[2].cmd = "rm"
                    /\ c[2].cid = pid
                    /\ last'.tag = "none"]_vars

\* C10: a get_updates call returns none exactly when the derived progress
\* text equals the text its process's last non-none call returned; a call
\* that returns a value stores the text and the time, a call that returns
\* none leaves last_progress and last_progress_time as they were.
C10_UpdatesOncePerChange ==
    [][(PollTaken /\ last'.tag # "raised") =>
          LET p    == running[cursor]
              q    == running'[cursor]
              text == get_updates_raw(p, disk).progress
          IN  /\ last'.tag = "none" <=> text = returned[p.id_]
              /\ last'.tag = "none" =>
                    /\ q.last_progress = p.last_progress
                    /\ q.last_progress_time = p.last_progress_time
              /\ last'.tag = "value" =>
                    /\ q.last_progress = text
                    /\ q.last_progress_time = now
                    /\ returned'[p.id_] = text]_vars

C10_Witness ==
    /\ last.op = "send_updates"
    /\ last.tag = "none"
    /\ returned[last.arg] # NoText
    /\ \E i \in 1..Len(running) :
          /\ running[i].id_ = last.arg
          /\ running[i].last_progress_time # NoTime
          /\ running[i].last_progress_time < now

\* C11: get_new_model returns the checkpoint with the largest number, as a
\* number, and no checkpoint twice: a call that returns a checkpoint returns
\* the largest one present, which none of the process's earlier calls
\* returned; a poll that raises nowhere returns the largest checkpoint if
\* there is one that was never returned, and nothing otherwise.
C11_EachCheckpointOnce ==
    [][PollTaken =>
          LET p     == running[cursor]
              q     == running'[cursor]
              files == disk[p.root].models
              fresh == files # {} /\ MaxOf(files) \notin delivered[p.id_]
          IN  /\ q.last_model_file # p.last_model_file =>
                    /\ q.last_model_file \in files
                    /\ \A n \in files : n <= q.last_model_file
                    /\ q.last_model_file \notin delivered[p.id_]
              /\ ~last'.logged =>
                    /\ fresh => q.last_model_file = MaxOf(files)
                    /\ fresh =>
                          [topic |-> "model", id |-> p.id_,
                           body |-> <<"Q", MaxOf(files)>>]
                              = sent'[Len(sent')]
                    /\ ~fresh => q.last_model_file = p.last_model_file
                    /\ ~fresh => \A i \in (Len(sent) + 1)..Len(sent') :
                                     sent'[i].topic # "model"]_vars

\* The second checkpoint appeared after the first was returned, and was
\* returned by the latest poll
C11_Witness ==
    /\ last.op = "send_updates"
    /\ ~last.logged
    /\ delivered[last.arg] = {CheckpointNo(1), CheckpointNo(2)}
    /\ \E i \in 1..Len(running) :
          /\ running[i].id_ = last.arg
          /\ running[i].last_model_file = CheckpointNo(2)
    /\ sent # <<>>
    /\ sent[Len(sent)] = [topic |-> "model", id |-> last.arg,
                           body |-> <<"Q", CheckpointNo(2)>>]

\* The containers running for a job id: those mounted on one of its
\* directories
LiveFor(id, conts) ==
    {c \in Cids : conts[c].state = "running" /\ conts[c].job[2] = md5_12(id)}

\* C12: a command handled a second time.  A stop-crawl handled again after
\* it was handled without error changes neither the registry nor the disk
\* nor the containers.  A start-crawl handled again, both times without
\* error, leaves one registered process for its id, whose container is the
\* only one running for the id: the container of the first handling is
\* stopped and removed.
C12_RedeliveryIdempotent ==
    [][/\ \A m \in StopMsgs :
             (/\ last.op = "stop_crawl"
              /\ last.arg = m.id
              /\ ~last.logged
              /\ \E f \in FailAt : Receive(m, f))
             => /\ running' = running
                /\ disk' = disk
                /\ containers' = containers
                /\ ~last'.logged
       /\ \A m \in StartMsgs :
             (/\ last.op = "start_crawl"
              /\ last.arg = m.id
              /\ last.tag = m.page_model
              /\ ~last.logged
              /\ LiveFor(m.id, containers) \subseteq {DictGet(running, m.id).pid}
              /\ \E f \in FailAt : Receive(m, f)
              /\ ~last'.logged)
             => LET old == DictGet(running, m.id)
                    new == DictGet(running', m.id)
                IN  /\ Cardinality({i \in 1..Len(running') :
                                       running'[i].id_ = m.id}) = 1
                    /\ new.pid # old.pid
                    /\ containers'[old.pid].state = "absent"
                    /\ LiveFor(m.id, containers') = {new.pid}]_vars

\* A start-crawl was handled for an id whose process was registered: the old
\* container was stopped and removed, a new one started
C12_Witness ==
    /\ last.op = "start_crawl"
    /\ ~last.logged
    /\ Len(last.calls) = 3
    /\ \A i \in 1..3 : last.calls[i].ok
    /\ LiveFor(last.arg, containers) = {last.calls[3].cid}

\* C13: consumer.commit() is called only at the end of an iteration: the
\* messages consumed become committed in a step that ends the iteration,
\* which on an iteration whose counter is a multiple of check_updates_every
\* is the end of send_updates, never the handling of a message; and when
\* run() ends with an exception the messages of its iteration are not
\* committed.
C13_CommitEndsIteration ==
    [][/\ (uncommitted /\ ~uncommitted') =>
             /\ pc' = "loop"
             /\ counter' > counter
             /\ pc = "broadcast" \/ counter % check_updates_every # 0
             /\ running' = running \/ pc = "broadcast"
             /\ disk' = disk /\ containers' = containers
       /\ (pc = "loop" /\ pc' \in {"loop", "stopped", "crashed"}
                       /\ counter' <= counter)
             => uncommitted'
       /\ (pc = "loop" /\ pc' = "broadcast") => uncommitted' = uncommitted
      ]_vars

\* A command was handled in an iteration that broadcasts: send_updates is
\* polling and the command is not committed yet
C13_Witness ==
    /\ pc = "broadcast"
    /\ uncommitted
    /\ last.op = "send_updates"
    /\ counter = check_updates_every

\* C14: get_n_last returns 1 when last_progress_time is unset; otherwise,
\* for the idle time T = d / 60 minutes (d seconds since the last progress
\* change) and the rate R per minute, it returns ceil(R * T): the least
\* integer n with n >= R * d / 60.
C14_QuotaIsCeiling ==
    last.op = "get_n_last" =>
        LET lpt == last.arg[1]
            d   == last.arg[2] - last.arg[1]
            n   == last.tag
        IN  IF lpt = NoTime
            THEN n = 1
            ELSE /\ 60 * n >= target_sample_rate_pm * d
                 /\ 60 * (n - 1) < target_sample_rate_pm * d

\* The quota was asked 21 seconds after the last progress change: R * T is
\* 1.05 and the quota is 2
C14_Witness ==
    /\ last.op = "get_n_last"
    /\ last.arg[1] # NoTime
    /\ last.arg[2] - last.arg[1] = 21
    /\ last.tag = 2

\* C15 as stated: decode_model_data(encode_model_data(data)) = data for any
\* byte sequence data, the empty one included.
C15_RoundTripAnyBytes ==
    (last.op = "decode_model_data" /\ last.arg[1] # NoData)
        => last.tag = last.arg[1]

\* C15: decode_model_data(encode_model_data(data)) = data for any non-empty
\* byte sequence data; empty or absent data encodes to an absent payload,
\* and an absent payload decodes to absent.
C15_RoundTrip ==
    /\ last.op = "encode_model_data" =>
          (last.tag = NoStr <=> last.arg \in {NoData, <<>>})
    /\ last.op = "decode_model_data" =>
          IF last.arg[1] \in {NoData, <<>>}
          THEN last.arg[2] = NoStr /\ last.tag = NoData
          ELSE last.tag = last.arg[1]

\* b'ab' went through both conversions: its payload is eJxLTAIAASYAxA==
C15_Witness ==
    /\ last.op = "decode_model_data"
    /\ last.arg[1] = <<97, 98>>
    /\ last.arg[2] = <<101, 74, 120, 76, 84, 65, 73, 65, 65, 83, 89,
                       65, 120, 65, 61, 61>>
    /\ last.tag = <<97, 98>>

\* C16: the replacement process that a start-crawl for a registered id
\* starts does not get the job directory of the process it replaces.
C16_ReplacementNewDirectory ==
    [][(pc = "loop" /\ last'.op = "start_crawl" /\ nextCid' > nextCid)
          => \A i \in 1..Len(running) : \A j \in 1..Len(running') :
                (running[i].id_ = last'.arg /\ running'[j].id_ = last'.arg)
                   => running'[j].root # running[i].root]_vars

\* C17: an iteration runs the broadcast exactly when its count is a multiple
\* of check_updates_every, and a broadcast ends only when every process of
\* the registry was polled: a failure for one process does not keep the
\* processes after it from being polled.
C17_BroadcastPollsAll ==
    [][/\ (pc = "loop" /\ pc' = "broadcast")
             => counter % check_updates_every = 0
       /\ (pc = "loop" /\ pc' = "loop" /\ counter' > counter)
             => counter % check_updates_every # 0
       /\ (pc = "broadcast" /\ pc' = "loop") => cursor >= Len(running)
      ]_vars

\* The worker in container c is alive; another live worker for the same id
\* runs in a later directory
Live(c) == containers[c].state = "running"
Superseded(c) ==
    \E c2 \in Cids :
        /\ Live(c2)
        /\ disk[containers[c2].job].id = disk[containers[c].job].id
        /\ NameLess(containers[c].job, containers[c2].job)

\* C18: when the service has stopped or crashed, at any point, every live
\* worker has its handle marker in its job directory, and when the service
\* has restarted and rebuilt the registry, every live worker is in the
\* registry unless a live worker for the same id in a later directory
\* superseded it.
C18_LiveWorkersRecovered ==
    /\ pc \in {"crashed", "stopped"} =>
          \A c \in Cids : Live(c) => disk[containers[c].job].pid = c
    /\ (pc = "loop" /\ last.op = "run") =>
          \A c \in Cids :
              Live(c) => \/ \E i \in 1..Len(running) : running[i].pid = c
                         \/ Superseded(c)

\* C19: while the service runs, every process in the registry has its pid
\* set, and start() is never called on a process that has one: a
\* start-crawl with a decodable model is logged as failed only when one of
\* its docker calls failed or when start() got past its assertion and wrote
\* the job directory (it failed on seeds it cannot iterate), never for the
\* assertion at the top of start().
C19_RegisteredHaveHandle ==
    /\ pc \in {"loading", "loop", "broadcast"} =>
          \A i \in 1..Len(running) : running[i].pid # NoPid
    /\ (last.op = "start_crawl" /\ last.tag = "ok" /\ last.logged)
          => \/ SomeCallFailed(last.calls)
             \/ \E d \in DOMAIN disk :
                   disk[d].id = last.arg /\ disk[d].page_clf /\ disk[d].seeds

\* A stop-crawl was handled and its stop failed: the process is still in the
\* registry, next to another one, and both have their pid
C19_Witness ==
    /\ pc = "loop"
    /\ last.op = "stop_crawl"
    /\ last.logged
    /\ Len(running) = 2
    /\ Has(running, last.arg)
    /\ DictGet(running, last.arg).pid # NoPid

\* The place of a topic in the order progress, pages, model
TopicRank(topic) ==
    IF topic = "progress" THEN 1 ELSE IF topic = "pages" THEN 2 ELSE 3

\* C20: in a broadcast, a pages message for an id comes directly after a
\* progress message for the same id; for each id the messages are in the
\* order progress, pages, model; and a process whose progress is unchanged
\* gets no pages message (nothing but a model is published for it).
C20_PagesFollowProgress ==
    /\ \A k \in 1..Len(sent) :
          sent[k].topic = "pages" =>
              /\ k > 1
              /\ sent[k - 1].topic = "progress"
              /\ sent[k - 1].id = sent[k].id
    /\ \A j \in 1..Len(sent) : \A k \in 1..Len(sent) :
          (j < k /\ sent[j].id = sent[k].id)
              => TopicRank(sent[j].topic) < TopicRank(sent[k].topic)
    /\ (last.op = "send_updates" /\ last.tag = "none") =>
          \A k \in 1..Len(sent) :
              sent[k].id = last.arg => sent[k].topic = "model"

\* A broadcast published progress, pages and a model for one id, in a row
C20_Witness ==
    \E k \in 1..Len(sent) :
        /\ k + 2 <= Len(sent)
        /\ sent[k].topic = "progress"
        /\ sent[k + 1].topic = "pages"
        /\ sent[k + 2].topic = "model"
        /\ sent[k].id = sent[k + 1].id
        /\ sent[k].id = sent[k + 2].id

====
